---- MODULE Spec2Model ----
(***************************************************************************)
(* Trajectory playback of lab_baxter_common                                *)
(* (baxter_general_toolkit/python_src/lab_baxter_common/traj_playback/     *)
(* trajectory.py): class Trajectory.                                       *)
(*                                                                         *)
(* Units.  Time is counted in control periods of the gripper loop          *)
(* (1 / _gripper_rate = 1/20 s), joint angles in 1/80 rad, so that the     *)
(* default joint velocity 0.25 rad/s is 1 angle unit per period and every  *)
(* quotient |cmd - cur| / velocity used below is exact.                    *)
(***************************************************************************)
EXTENDS Integers, Sequences, FiniteSets, TLC

VARIABLES
    mpc,            \* position of the caller's (main) thread
    exc,            \* exception that ended the caller's thread, or "none"
    shutdown,       \* rospy.is_shutdown()
    probes,         \* per arm: the answers of its wait_for_server probes
    header,         \* the recording: lines[0] split at commas
    file,           \* the recording: lines[1:], each split at commas
    curAngle,       \* Limb.joint_angle per arm joint
    velParam,       \* parameter server: <joint>_default_velocity or None
    gripType,       \* Gripper.type() per side
    lNames, rNames, \* _l_goal / _r_goal .trajectory.joint_names
    lGoal, rGoal,   \* _l_goal / _r_goal .trajectory.points
    lGrip, rGrip,   \* _l_grip / _r_grip .trajectory.points
    rowIdx,         \* parse_file: idx of enumerate(lines[1:])
    start_offset,   \* parse_file: local start_offset
    slowMoveOffset, \* _slow_move_offset
    startOffset,    \* _trajectory_start_offset  (a Duration)
    actualOffset,   \* _trajectory_actual_offset (a Duration)
    flag,           \* _arm_trajectory_started
    gh,             \* per arm: goal handle of the action client
    sent,           \* per arm: number of goals submitted
    result,         \* per arm: get_result() (None or an error code)
    cbPc,           \* per arm: position of the running feedback callback
    cbT,            \* per arm: data.actual.time_from_start of that callback
    writes,         \* history: number of assignments to _trajectory_actual_offset
    firstCross,     \* history: time of the first callback that passed the test
    lateInvoked,    \* history: a callback was invoked after the latch
    now,            \* rospy.get_time(), counted from the entry of the gripper loop
    start_time,     \* _execute_gripper_commands: local start_time
    now_from_start, \* _execute_gripper_commands: local now_from_start
    idx,            \* _execute_gripper_commands: local idx
    gripCmd,        \* per side: last position commanded, or None
    finish,         \* wait: l_finish / r_finish
    waitRet,        \* return value of the last wait(): "None", "True", "False"
    cancels,        \* per arm: number of cancel requests published for its goal
    stops           \* number of calls of stop() made

vars == <<mpc, exc, shutdown, probes, header, file, curAngle, velParam,
          gripType, lNames, rNames, lGoal, rGoal, lGrip, rGrip, rowIdx,
          start_offset, slowMoveOffset, startOffset, actualOffset, flag, gh,
          sent, result, cbPc, cbT, writes, firstCross, lateInvoked, now,
          start_time,
          now_from_start, idx, gripCmd, finish, waitRet, cancels, stops>>

----------------------------------------------------------------------------
(* Bounds of the model *)

MaxRows == 2        \* data rows of a recording
MaxRowTime == 2     \* largest recorded row time
MaxFb == 2          \* largest elapsed time a feedback message reports
MaxNow == 4         \* the clock stops advancing here
MaxStops == 2       \* calls of stop() in a session
MaxStarts == 2      \* calls of start() in a session

(* Program constants *)

GripperRate == 20           \* _gripper_rate, Hz
Period == 1                 \* 1.0 / _gripper_rate, in control periods
DefaultVelocity == 1        \* 0.25 rad/s = 1 angle unit per control period
NsPerPeriod == 1000000000 \div GripperRate

\* Python's None, and a value that is present
None == <<>>
Some(v) == <<v>>

Arms == {"left", "right"}
Sides == {"left", "right"}

----------------------------------------------------------------------------
(* rospy.Duration: a float of seconds is split into whole seconds and      *)
(* nanoseconds; to_sec() joins them; comparison is on (secs, nsecs).       *)

Duration(t) ==
    [secs |-> t \div GripperRate, nsecs |-> (t % GripperRate) * NsPerPeriod]

to_sec(d) == d.secs * GripperRate + d.nsecs \div NsPerPeriod

DurGE(a, b) == \/ a.secs > b.secs
               \/ a.secs = b.secs /\ a.nsecs >= b.nsecs

----------------------------------------------------------------------------
(* The recording.  A cell is text: a number, or text that float() rejects.  *)

Num(v) == [text |-> "number", v |-> v]
Blank == [text |-> "", v |-> 0]
NotANumber == [text |-> "n/a", v |-> 0]

\* name[:-3]
StripLast3(name) ==
    CASE name = "time"          -> "t"
      [] name = "left_s0"       -> "left"
      [] name = "left_s1"       -> "left"
      [] name = "right_s0"      -> "right"
      [] name = "left_gripper"  -> "left_grip"
      [] name = "right_gripper" -> "right_grip"

StdHeader == <<"time", "left_s0", "right_s0", "left_gripper", "right_gripper">>

Angles == {0, 2}
ArmJoints == {"left_s0", "right_s0"}

\* try_float of _clean_line
try_float(x) == IF x.text = "number" THEN Some(x.v) ELSE None

\* _clean_line: (command, line)
CleanedLine(raw) == [i \in DOMAIN raw |-> try_float(raw[i])]

Command(names, raw) ==
    LET line == CleanedLine(raw)
        n == IF Len(names) < Len(line) THEN Len(names) ELSE Len(line)
        keep == {i \in 2..n : line[i] # None}
    IN  [k \in {names[i] : i \in keep} |->
            line[CHOOSE i \in keep :
                   names[i] = k /\ \A j \in keep : names[j] = k => j <= i][1]]

\* a JointTrajectoryPoint built by _add_point
Point(positions, time) == [positions |-> positions, time_from_start |-> Duration(time)]

Abs(x) == IF x < 0 THEN -x ELSE x

RECURSIVE MaxOf(_)
MaxOf(s) == IF Len(s) = 1 THEN s[1]
            ELSE LET m == MaxOf(Tail(s)) IN IF s[1] >= m THEN s[1] ELSE m

\* the joints of the left arm alone
ArmColumns_LeftOnly(names) ==
    SelectSeq(names, LAMBDA nm : StripLast3(nm) = "left")

\* the joints find_start_offset visits, in header order
ArmColumns(names) ==
    SelectSeq(names, LAMBDA nm : StripLast3(nm) \in {"left", "right"})

\* rospy.get_param(vel_param % name, 0.25)
Velocity(nm) == IF velParam[nm] = None THEN DefaultVelocity ELSE velParam[nm][1]

\* find_start_offset: the exception it raises, or "none"
StartOffsetExc(names, pos) ==
    LET cols == ArmColumns(names) IN
    IF \E i \in DOMAIN cols : cols[i] \notin DOMAIN pos THEN "KeyError"
    ELSE IF \E i \in DOMAIN cols : Velocity(cols[i]) = 0 THEN "ZeroDivisionError"
    ELSE IF Len(cols) = 0 THEN "ValueError"
    ELSE "none"

\* find_start_offset: the offset it returns
find_start_offset(names, pos) ==
    LET cols == ArmColumns(names)
        ratios == [i \in DOMAIN cols |->
                     Abs(pos[cols[i]] - curAngle[cols[i]]) \div Velocity(cols[i])]
    IN  MaxOf(ratios)

----------------------------------------------------------------------------
(* Recordings and initial states *)

\* row times: strictly increasing, first >= 0
RowTimes ==
    {ts \in UNION {[1..n -> 0..MaxRowTime] : n \in 1..MaxRows} :
        \A i \in DOMAIN ts : \A j \in DOMAIN ts : i < j => ts[i] < ts[j]}

\* complete recordings: every cell of every row is a number
FullRow(t, i, a) == <<Num(t), Num(a), Num(a), Num(10 * i), Num(10 * i + 5)>>

GripperTypes == {"electric", "custom"}

InitSession ==
    /\ mpc = "new"
    /\ exc = "none"
    /\ shutdown = FALSE
    /\ probes = [a \in Arms |-> <<>>]
    /\ lNames = <<>> /\ rNames = <<>>
    /\ lGoal = <<>> /\ rGoal = <<>>
    /\ lGrip = <<>> /\ rGrip = <<>>
    /\ rowIdx = 0
    /\ start_offset = 0
    /\ slowMoveOffset = 0
    /\ startOffset = Duration(0)
    /\ actualOffset = Duration(0)
    /\ flag = FALSE
    /\ gh = [a \in Arms |-> "none"]
    /\ sent = [a \in Arms |-> 0]
    /\ result = [a \in Arms |-> None]
    /\ cbPc = [a \in Arms |-> "idle"]
    /\ cbT = [a \in Arms |-> 0]
    /\ writes = 0
    /\ firstCross = None
    /\ lateInvoked = FALSE
    /\ now = 0
    /\ start_time = 0
    /\ now_from_start = 0
    /\ idx = 0
    /\ gripCmd = [s \in Sides |-> None]
    /\ finish = [a \in Arms |-> FALSE]
    /\ waitRet = "None"
    /\ cancels = [a \in Arms |-> 0]
    /\ stops = 0

\* playback scenarios: a recording and the pose the robot is in
Rec(ts, a) == [i \in DOMAIN ts |-> FullRow(ts[i], i, a)]
Pose(l, r) == [j \in ArmJoints |-> IF j = "left_s0" THEN l ELSE r]

Scenarios ==
    { [file |-> Rec(<<0, 2>>, 0), cur |-> Pose(0, 0)],
      [file |-> Rec(<<1, 2>>, 0), cur |-> Pose(0, 0)],
      [file |-> Rec(<<0>>, 2),    cur |-> Pose(2, 0)] }

Init ==
    /\ InitSession
    /\ header = StdHeader
    /\ \E sc \in Scenarios : file = sc.file /\ curAngle = sc.cur
    /\ velParam = [j \in ArmJoints |-> None]
    /\ gripType \in [Sides -> GripperTypes]

\* recordings for parsing: every arm cell of every row chosen freely
ParseRowOf(t, i, l, r) == <<Num(t), Num(l), Num(r), Num(10 * i), Num(10 * i + 5)>>

ParseFiles ==
    UNION { { [i \in DOMAIN ts |-> ParseRowOf(ts[i], i, ls[i], rs[i])] :
                ls \in [DOMAIN ts -> Angles], rs \in [DOMAIN ts -> Angles] } :
            ts \in RowTimes }

ParseInit ==
    /\ InitSession
    /\ header = StdHeader
    /\ file \in ParseFiles
    /\ curAngle \in [ArmJoints -> Angles]
    /\ velParam \in [ArmJoints -> {None, Some(2)}]
    /\ gripType = [s \in Sides |-> "electric"]

----------------------------------------------------------------------------
(* __init__ *)

sessionVars == <<lNames, rNames, lGoal, rGoal, lGrip, rGrip, rowIdx,
                 start_offset, slowMoveOffset, startOffset>>
inputVars == <<header, file, curAngle, velParam, gripType>>
clientVars == <<gh, sent, result>>
cbVars == <<cbPc, cbT, writes, firstCross, lateInvoked, flag, actualOffset>>
loopVars == <<now, start_time, now_from_start, idx, gripCmd>>
waitVars == <<finish, waitRet>>
stopVars == <<cancels, stops>>

\* the test of line 33 with "and" in place of "or"
ServersDown_BothOnly(l_server_up, r_server_up) == ~l_server_up /\ ~r_server_up

\* the test of line 33
ServersDown(l_server_up, r_server_up) == ~l_server_up \/ ~r_server_up

\* the caller's thread ends with exception e, and the process with it (the
\* subscriber threads that run the callbacks are daemon threads)
Raise(e) == mpc' = "raised" /\ exc' = e

alive == mpc # "raised"

\* both servers are probed once; if either is down the node is shut down and
\* sys.exit(1) is reached (sys is not imported: a NameError takes its place)
Construct ==
    /\ mpc = "new"
    /\ \E l_server_up \in BOOLEAN, r_server_up \in BOOLEAN :
        /\ probes' = [probes EXCEPT !["left"] = Append(@, l_server_up),
                                   !["right"] = Append(@, r_server_up)]
        /\ IF ServersDown(l_server_up, r_server_up)
           THEN shutdown' = TRUE /\ Raise("NameError")
           ELSE shutdown' = shutdown /\ mpc' = "idle" /\ exc' = exc
    /\ UNCHANGED <<sessionVars, inputVars, clientVars, cbVars, loopVars,
                   waitVars, stopVars>>

----------------------------------------------------------------------------
(* parse_file *)

parsed == rowIdx = Len(file) /\ lGoal # <<>>

\* lines 156-165: the joint names of each arm
ParseBegin ==
    /\ mpc = "idle"
    /\ lNames = <<>> /\ rNames = <<>> /\ lGoal = <<>>
    /\ lNames' = lNames \o SelectSeq(header, LAMBDA nm : StripLast3(nm) = "left")
    /\ rNames' = rNames \o SelectSeq(header, LAMBDA nm : StripLast3(nm) = "right")
    /\ rowIdx' = 0
    /\ mpc' = "parse"
    /\ UNCHANGED <<exc, shutdown, probes, lGoal, rGoal, lGrip, rGrip,
                   start_offset, slowMoveOffset, startOffset,
                   inputVars, clientVars, cbVars, loopVars, waitVars, stopVars>>

\* how many of the four appends of lines 211-218 happen before a KeyError
Appends(cmd) ==
    IF \E i \in DOMAIN lNames : lNames[i] \notin DOMAIN cmd THEN 0
    ELSE IF \E i \in DOMAIN rNames : rNames[i] \notin DOMAIN cmd THEN 1
    ELSE IF "left_gripper" \notin DOMAIN cmd THEN 2
    ELSE IF "right_gripper" \notin DOMAIN cmd THEN 3
    ELSE 4

CurrentPose(names) == [i \in DOMAIN names |-> curAngle[names[i]]]

\* the recorded time alone, without the start offset
PointTime_NoOffset(t, offset) == t

\* the elapsed time given to the points of a data row (lines 212-218)
PointTime(t, offset) == t + offset

\* the elapsed time of the synthetic first point (lines 202, 204)
FirstPointTime == 0

\* the requested start offset (line 209)
RequestedOffset(offset, t) == offset + t

\* one iteration of the loop of lines 192-218
ParseRow ==
    /\ mpc = "parse"
    /\ rowIdx < Len(file)
    /\ LET raw == file[rowIdx + 1]
           cmd == Command(header, raw)
           t == CleanedLine(raw)[1][1]
           first == rowIdx = 0
           fexc == IF first THEN StartOffsetExc(header, cmd) ELSE "none"
           off == IF first /\ fexc = "none" THEN find_start_offset(header, cmd)
                  ELSE start_offset
           n == IF fexc = "none" THEN Appends(cmd) ELSE 0
           lG == IF first THEN Append(lGoal, Point(CurrentPose(lNames), FirstPointTime))
                 ELSE lGoal
           rG == IF first THEN Append(rGoal, Point(CurrentPose(rNames), FirstPointTime))
                 ELSE rGoal
       IN
       /\ start_offset' = off
       /\ slowMoveOffset' = IF first /\ fexc = "none" THEN off ELSE slowMoveOffset
       /\ startOffset' = IF first /\ fexc = "none"
                         THEN Duration(RequestedOffset(off, t)) ELSE startOffset
       /\ lGoal' = IF n >= 1
                   THEN Append(lG, Point([i \in DOMAIN lNames |-> cmd[lNames[i]]],
                                         PointTime(t, off)))
                   ELSE lG
       /\ rGoal' = IF n >= 2
                   THEN Append(rG, Point([i \in DOMAIN rNames |-> cmd[rNames[i]]],
                                         PointTime(t, off)))
                   ELSE rG
       /\ lGrip' = IF n >= 3
                   THEN Append(lGrip, Point(<<cmd["left_gripper"]>>, PointTime(t, off)))
                   ELSE lGrip
       /\ rGrip' = IF n >= 4
                   THEN Append(rGrip, Point(<<cmd["right_gripper"]>>, PointTime(t, off)))
                   ELSE rGrip
       /\ IF fexc # "none" THEN Raise(fexc) /\ rowIdx' = rowIdx
          ELSE IF n < 4 THEN Raise("KeyError") /\ rowIdx' = rowIdx
          ELSE /\ rowIdx' = rowIdx + 1
               /\ mpc' = IF rowIdx + 1 = Len(file) THEN "idle" ELSE "parse"
               /\ exc' = exc
    /\ UNCHANGED <<shutdown, probes, lNames, rNames,
                   inputVars, clientVars, cbVars, loopVars, waitVars, stopVars>>

----------------------------------------------------------------------------
(* The two action clients and their servers *)

\* start, lines 244-245: send_goal on one arm's client; the client tracks
\* the new goal alone, to which no cancel request has been addressed
SendGoal(a, next) ==
    /\ gh' = [gh EXCEPT ![a] = "active"]
    /\ sent' = [sent EXCEPT ![a] = @ + 1]
    /\ result' = [result EXCEPT ![a] = None]
    /\ cancels' = [cancels EXCEPT ![a] = 0]
    /\ mpc' = next

SendLeft ==
    /\ mpc = "idle" /\ parsed
    /\ sent["left"] = 0
    /\ SendGoal("left", "send_right")
    /\ UNCHANGED <<exc, shutdown, probes, sessionVars, inputVars, cbVars,
                   loopVars, waitVars, stops>>

\* start() called again on the same object
StartAgain ==
    /\ mpc = "idle" /\ parsed
    /\ sent["left"] >= 1 /\ sent["left"] < MaxStarts
    /\ SendGoal("left", "send_right")
    /\ UNCHANGED <<exc, shutdown, probes, sessionVars, inputVars, cbVars,
                   loopVars, waitVars, stops>>

SendRight ==
    /\ mpc = "send_right"
    /\ SendGoal("right", "poll")
    /\ UNCHANGED <<exc, shutdown, probes, sessionVars, inputVars, cbVars,
                   loopVars, waitVars, stops>>

ErrorCodes == {0, -4}

\* the goal is with the server and has not ended: its status is ACTIVE, or
\* PREEMPTING once the server has taken up a cancel request
Running(a) == gh[a] \in {"active", "preempting"}

\* an arm's server ends its goal with an error code
Finish(a) ==
    /\ alive
    /\ Running(a)
    /\ \E code \in ErrorCodes :
        /\ gh' = [gh EXCEPT ![a] = "done"]
        /\ result' = [result EXCEPT ![a] = Some(code)]
    /\ UNCHANGED <<mpc, exc, shutdown, probes, sent, sessionVars, inputVars,
                   cbVars, loopVars, waitVars, stopVars>>

\* rospy.signal_shutdown from anywhere
Shutdown ==
    /\ ~shutdown
    /\ mpc \notin {"new", "raised"}
    /\ shutdown' = TRUE
    /\ UNCHANGED <<mpc, exc, probes, sessionVars, inputVars, clientVars,
                   cbVars, loopVars, waitVars, stopVars>>

----------------------------------------------------------------------------
(* _feedback, run by each client's own subscriber thread *)

latched == writes > 0

\* _get_trajectory_flag: the flag, read under the lock
get_trajectory_flag == flag

\* the test of _feedback without its look at the flag
FeedbackTest_NoFlag(started, t) == DurGE(Duration(t), startOffset)

\* lines 223-224: the test of _feedback
FeedbackTest(started, t) == ~started /\ DurGE(Duration(t), startOffset)

\* a feedback message of arm a reporting elapsed time t arrives; _feedback
\* is invoked with it and makes its test (lines 223-224)
FbInvoke(a) ==
    /\ alive
    /\ Running(a)
    /\ cbPc[a] = "idle"
    /\ \E t \in 0..MaxFb :
        IF FeedbackTest(get_trajectory_flag, t)
        THEN /\ cbPc' = [cbPc EXCEPT ![a] = "set"]
             /\ cbT' = [cbT EXCEPT ![a] = t]
             /\ firstCross' = IF firstCross = None THEN Some(t) ELSE firstCross
        ELSE UNCHANGED <<cbPc, cbT, firstCross>>
    /\ lateInvoked' = (lateInvoked \/ (flag /\ latched))
    /\ UNCHANGED <<mpc, exc, shutdown, probes, sessionVars, inputVars,
                   clientVars, writes, flag, actualOffset, loopVars, waitVars, stopVars>>

\* lines 225 and 226 in the other order: the offset is assigned first
FbSet_WriteFirst(a) ==
    /\ alive
    /\ cbPc[a] = "set"
    /\ actualOffset' = Duration(cbT[a])
    /\ cbPc' = [cbPc EXCEPT ![a] = "write"]
    /\ UNCHANGED <<mpc, exc, shutdown, probes, sessionVars, inputVars,
                   clientVars, cbT, writes, firstCross, lateInvoked,
                   flag, loopVars, waitVars, stopVars>>

\* line 225 inverting the flag in place of setting it
FbSet_Toggle(a) ==
    /\ alive
    /\ cbPc[a] = "set"
    /\ flag' = ~flag
    /\ cbPc' = [cbPc EXCEPT ![a] = "write"]
    /\ UNCHANGED <<mpc, exc, shutdown, probes, sessionVars, inputVars,
                   clientVars, cbT, writes, firstCross, lateInvoked,
                   actualOffset, loopVars, waitVars, stopVars>>

\* line 225: _set_trajectory_flag(value=True), under the lock
FbSet(a) ==
    /\ alive
    /\ cbPc[a] = "set"
    /\ flag' = TRUE
    /\ cbPc' = [cbPc EXCEPT ![a] = "write"]
    /\ UNCHANGED <<mpc, exc, shutdown, probes, sessionVars, inputVars,
                   clientVars, cbT, writes, firstCross, lateInvoked,
                   actualOffset, loopVars, waitVars, stopVars>>

\* line 226: the assignment of _trajectory_actual_offset, outside the lock
FbWrite(a) ==
    /\ alive
    /\ cbPc[a] = "write"
    /\ actualOffset' = Duration(cbT[a])
    /\ writes' = writes + 1
    /\ cbPc' = [cbPc EXCEPT ![a] = "idle"]
    /\ cbT' = [cbT EXCEPT ![a] = 0]
    /\ UNCHANGED <<mpc, exc, shutdown, probes, sessionVars, inputVars,
                   clientVars, firstCross, lateInvoked, flag, loopVars,
                   waitVars, stopVars>>

----------------------------------------------------------------------------
(* start: the poll loop of lines 247-248 *)

\* the loop condition without its look at the shutdown signal
PollAgain_NoShutdown(isShutdown, started) == ~started

\* the loop condition without its look at the flag
PollAgain_NoFlag(isShutdown, started) == ~isShutdown

\* the loop condition of line 247
PollAgain(isShutdown, started) == ~isShutdown /\ ~started

PollTest ==
    /\ mpc = "poll"
    /\ mpc' = IF PollAgain(shutdown, get_trajectory_flag) THEN "poll_sleep" ELSE "exec"
    /\ UNCHANGED <<exc, shutdown, probes, sessionVars, inputVars, clientVars,
                   cbVars, loopVars, waitVars, stopVars>>

\* rospy.sleep(0.05) returns
PollWake ==
    /\ mpc = "poll_sleep"
    /\ mpc' = "poll"
    /\ UNCHANGED <<exc, shutdown, probes, sessionVars, inputVars, clientVars,
                   cbVars, loopVars, waitVars, stopVars>>

\* rospy.sleep(0.05) under simulated time raises when the node shuts down
PollInterrupted ==
    /\ mpc = "poll_sleep"
    /\ shutdown
    /\ Raise("ROSInterruptException")
    /\ UNCHANGED <<shutdown, probes, sessionVars, inputVars, clientVars,
                   cbVars, loopVars, waitVars, stopVars>>

----------------------------------------------------------------------------
(* _execute_gripper_commands *)

\* bisect.bisect(a, x): the loop of bisect_right over a[lo:hi], 0-based
RECURSIVE bisect_loop(_, _, _, _)
bisect_loop(a, x, lo, hi) ==
    IF lo < hi
    THEN LET mid == (lo + hi) \div 2
         IN  IF x < a[mid + 1] THEN bisect_loop(a, x, lo, mid)
                               ELSE bisect_loop(a, x, mid + 1, hi)
    ELSE lo

bisect(a, x) == bisect_loop(a, x, 0, Len(a))

\* line 95
LookupIndex(pnt_times, t) == bisect(pnt_times, t) - 1

\* Python's list[i]: a negative index counts from the end
PyValid(s, i) == -Len(s) <= i /\ i < Len(s)
PyAt(s, i) == IF i < 0 THEN s[Len(s) + i + 1] ELSE s[i + 1]

\* the times of the right arm's points in place of the right gripper's
pnt_times_OfArm == [i \in DOMAIN rGoal |-> to_sec(rGoal[i].time_from_start)]

\* line 89
pnt_times == [i \in DOMAIN rGrip |-> to_sec(rGrip[i].time_from_start)]

\* line 90
end_time == PyAt(pnt_times, -1)

\* lines 86-91
ExecBegin ==
    /\ mpc = "exec"
    /\ IF rGrip = <<>>
       THEN Raise("IndexError") /\ start_time' = start_time
       ELSE /\ start_time' = now - to_sec(actualOffset)
            /\ mpc' = "exec_read"
            /\ exc' = exc
    /\ UNCHANGED <<shutdown, probes, sessionVars, inputVars, clientVars,
                   cbVars, now, now_from_start, idx, gripCmd, waitVars, stopVars>>

\* line 92
ExecRead ==
    /\ mpc = "exec_read"
    /\ now_from_start' = now - start_time
    /\ mpc' = "exec_test"
    /\ UNCHANGED <<exc, shutdown, probes, sessionVars, inputVars, clientVars,
                   cbVars, now, start_time, idx, gripCmd, waitVars, stopVars>>

\* the loop condition without its look at the shutdown signal
LoopAgain_NoShutdown(t, isShutdown) == t < end_time + Period

\* the loop condition without its look at the clock
LoopAgain_NoClock(t, isShutdown) == ~isShutdown

\* the loop condition of lines 93-94
LoopAgain(t, isShutdown) == t < end_time + Period /\ ~isShutdown

\* when the loop ends the method returns: its locals are gone and the clock,
\* of which only differences are read, is no longer followed
ExecTest ==
    /\ mpc = "exec_test"
    /\ IF LoopAgain(now_from_start, shutdown)
       THEN mpc' = "exec_body" /\ UNCHANGED <<now, start_time, now_from_start, idx>>
       ELSE /\ mpc' = "idle"
            /\ now' = 0 /\ start_time' = 0 /\ now_from_start' = 0 /\ idx' = 0
    /\ UNCHANGED <<exc, shutdown, probes, sessionVars, inputVars, clientVars,
                   cbVars, gripCmd, waitVars, stopVars>>

\* a custom gripper on either side keeps both from being commanded
Commanded_NeitherCustom(side) == \A s \in Sides : gripType[s] # "custom"

\* lines 96-99: whether a gripper is commanded
Commanded(side) == gripType[side] # "custom"

\* lines 95-99
ExecBody ==
    /\ mpc = "exec_body"
    /\ LET i == LookupIndex(pnt_times, now_from_start)
           rOk == ~Commanded("right") \/ PyValid(rGrip, i)
           lOk == ~Commanded("left") \/ PyValid(lGrip, i)
           rDo == Commanded("right") /\ rOk
           lDo == Commanded("left") /\ rOk /\ lOk
       IN
       /\ idx' = i
       /\ gripCmd' = [s \in Sides |->
            IF s = "right" /\ rDo THEN Some(PyAt(rGrip, i).positions[1])
            ELSE IF s = "left" /\ lDo THEN Some(PyAt(lGrip, i).positions[1])
            ELSE gripCmd[s]]
       /\ IF rOk /\ lOk THEN mpc' = "exec_sleep" /\ exc' = exc
          ELSE Raise("IndexError")
    /\ UNCHANGED <<shutdown, probes, sessionVars, inputVars, clientVars,
                   cbVars, now, start_time, now_from_start, waitVars, stopVars>>

\* lines 100-101: rate.sleep() returns after one period or more, then the
\* clock is read
ExecWake ==
    /\ mpc = "exec_sleep"
    /\ \E d \in Period..(MaxNow - now) :
        /\ now' = now + d
        /\ now_from_start' = now + d - start_time
    /\ mpc' = "exec_test"
    /\ UNCHANGED <<exc, shutdown, probes, sessionVars, inputVars, clientVars,
                   cbVars, start_time, idx, gripCmd, waitVars, stopVars>>

\* rate.sleep() raises when the node shuts down while it sleeps
ExecInterrupted ==
    /\ mpc = "exec_sleep"
    /\ shutdown
    /\ Raise("ROSInterruptException")
    /\ UNCHANGED <<shutdown, probes, sessionVars, inputVars, clientVars,
                   cbVars, loopVars, waitVars, stopVars>>

----------------------------------------------------------------------------
(* wait *)

\* lines 272-276
WaitBegin ==
    /\ mpc = "idle" /\ parsed
    /\ sent["left"] > 0
    /\ waitRet = "None"
    /\ IF rGoal = <<>> THEN Raise("IndexError")
       ELSE mpc' = "wait_left" /\ exc' = exc
    /\ UNCHANGED <<shutdown, probes, sessionVars, inputVars, clientVars,
                   cbVars, loopVars, waitVars, stopVars>>

\* lines 278-279: wait_for_result(timeout) returns whether the goal is done
WaitForResult(a, next) ==
    /\ finish' = [finish EXCEPT ![a] = (gh[a] = "done")]
    /\ mpc' = next
    /\ UNCHANGED <<exc, shutdown, probes, sessionVars, inputVars, clientVars,
                   cbVars, loopVars, waitRet, stopVars>>

WaitLeft == mpc = "wait_left" /\ WaitForResult("left", "wait_right")

WaitRight == mpc = "wait_right" /\ WaitForResult("right", "wait_verify")

\* line 284
Verified(l_finish, r_finish, l_result, r_result) ==
    l_finish /\ r_finish /\ l_result /\ r_result

\* lines 280-290: get_result() is None while a goal has no result
WaitVerify ==
    /\ mpc = "wait_verify"
    /\ IF result["left"] = None \/ result["right"] = None
       THEN Raise("AttributeError") /\ waitRet' = waitRet
       ELSE /\ waitRet' = IF Verified(finish["left"], finish["right"],
                                      result["left"][1] = 0, result["right"][1] = 0)
                          THEN "True" ELSE "False"
            /\ mpc' = "idle"
            /\ exc' = exc
    /\ UNCHANGED <<shutdown, probes, sessionVars, inputVars, clientVars,
                   cbVars, loopVars, finish, stopVars>>

----------------------------------------------------------------------------
(* stop *)

\* SimpleActionClient.get_state(): LOST without a goal handle; the status
\* PREEMPTING is reported as ACTIVE; a goal that has ended reports its
\* terminal status
get_state(a) ==
    CASE gh[a] = "none"       -> "LOST"
      [] gh[a] = "active"     -> "ACTIVE"
      [] gh[a] = "preempting" -> "ACTIVE"
      [] gh[a] = "done"       -> "TERMINAL"

\* the test of stop with the look at the goal handle alone
StopTest_AnyGoal(a) == gh[a] # "none"

\* lines 255-256 and 259-260: the test of stop for one arm
StopTest(a) == gh[a] # "none" /\ get_state(a) = "ACTIVE"

\* stop() is called by the caller's thread between two other operations
StopBegin ==
    /\ mpc = "idle"
    /\ stops < MaxStops
    /\ stops' = stops + 1
    /\ mpc' = "stop_left"
    /\ UNCHANGED <<exc, shutdown, probes, sessionVars, inputVars, clientVars,
                   cbVars, loopVars, waitVars, cancels>>

\* lines 255-257, 259-261: cancel_goal() publishes a cancel request
StopArm(a, next) ==
    /\ cancels' = IF StopTest(a) THEN [cancels EXCEPT ![a] = @ + 1] ELSE cancels
    /\ mpc' = next
    /\ UNCHANGED <<exc, shutdown, probes, sessionVars, inputVars, clientVars,
                   cbVars, loopVars, waitVars, stops>>

StopLeft == mpc = "stop_left" /\ StopArm("left", "stop_right")

StopRight == mpc = "stop_right" /\ StopArm("right", "stop_sleep")

\* line 264: rospy.sleep(0.1) returns
StopWake ==
    /\ mpc = "stop_sleep"
    /\ mpc' = "idle"
    /\ UNCHANGED <<exc, shutdown, probes, sessionVars, inputVars, clientVars,
                   cbVars, loopVars, waitVars, stopVars>>

\* rospy.sleep(0.1) under simulated time raises when the node shuts down
StopInterrupted ==
    /\ mpc = "stop_sleep"
    /\ shutdown
    /\ Raise("ROSInterruptException")
    /\ UNCHANGED <<shutdown, probes, sessionVars, inputVars, clientVars,
                   cbVars, loopVars, waitVars, stopVars>>

\* an arm's server takes up a cancel request: the goal's status becomes
\* PREEMPTING until the server ends the goal (Finish)
CancelAck(a) ==
    /\ alive
    /\ gh[a] = "active"
    /\ cancels[a] > 0
    /\ gh' = [gh EXCEPT ![a] = "preempting"]
    /\ UNCHANGED <<mpc, exc, shutdown, probes, sent, result, sessionVars,
                   inputVars, cbVars, loopVars, waitVars, stopVars>>

----------------------------------------------------------------------------
Next ==
    \/ Construct
    \/ ParseBegin
    \/ ParseRow
    \/ SendLeft
    \/ SendRight
    \/ \E a \in Arms : Finish(a)
    \/ Shutdown
    \/ \E a \in Arms : FbInvoke(a)
    \/ \E a \in Arms : FbSet(a)
    \/ \E a \in Arms : FbWrite(a)
    \/ PollTest
    \/ PollWake
    \/ PollInterrupted
    \/ ExecBegin
    \/ ExecRead
    \/ ExecTest
    \/ ExecBody
    \/ ExecWake
    \/ ExecInterrupted
    \/ WaitBegin
    \/ WaitLeft
    \/ WaitRight
    \/ WaitVerify

Spec == Init /\ [][Next]_vars

\* construction and parsing alone, over all recordings within the bounds
ParseNext ==
    \/ Construct
    \/ ParseBegin
    \/ ParseRow

ParseSpec == ParseInit /\ [][ParseNext]_vars

\* recordings with one cell that float() rejects, in any column but the
\* first, of any row
BadCells == {Blank, NotANumber}

BadCellFiles ==
    UNION { { [f EXCEPT ![i][c] = bad] :
                i \in DOMAIN f, c \in 2..Len(StdHeader), bad \in BadCells } :
            f \in ParseFiles }

BadCellInit ==
    /\ InitSession
    /\ header = StdHeader
    /\ file \in BadCellFiles
    /\ curAngle \in [ArmJoints -> Angles]
    /\ velParam = [j \in ArmJoints |-> None]
    /\ gripType = [s \in Sides |-> "electric"]

BadCellSpec == BadCellInit /\ [][ParseNext]_vars

\* recordings of three arm joints, listed in any order, with one row; the
\* parameter server holds a velocity for any of the joints, positive or not
OffsetJoints == {"left_s0", "left_s1", "right_s0"}

JointOrders ==
    {o \in [1..3 -> OffsetJoints] : \A i, j \in 1..3 : i # j => o[i] # o[j]}

HeaderOf(o) == <<"time">> \o o \o <<"left_gripper", "right_gripper">>

RowOf(o, t, v) ==
    <<Num(t)>> \o [i \in 1..3 |-> Num(v[o[i]])] \o <<Num(10), Num(15)>>

Velocities == {None, Some(2), Some(0), Some(-1)}

OffsetInit ==
    /\ InitSession
    /\ \E o \in JointOrders, v \in [OffsetJoints -> Angles] :
          /\ header = HeaderOf(o)
          /\ file = <<RowOf(o, 1, v)>>
    /\ curAngle \in [OffsetJoints -> Angles]
    /\ velParam \in [OffsetJoints -> Velocities]
    /\ gripType = [s \in Sides |-> "electric"]

OffsetSpec == OffsetInit /\ [][ParseNext]_vars

\* a session with stop(): the recording needs a slow move of 2 periods to
\* its only row, both grippers are electric
StopInit ==
    /\ InitSession
    /\ header = StdHeader
    /\ file = Rec(<<0>>, 2)
    /\ curAngle = Pose(2, 0)
    /\ velParam = [j \in ArmJoints |-> None]
    /\ gripType = [s \in Sides |-> "electric"]

\* every operation of the class, with the servers, the callbacks and the
\* shutdown signal
StopNext ==
    \/ Construct
    \/ ParseBegin
    \/ ParseRow
    \/ SendLeft
    \/ SendRight
    \/ \E a \in Arms : Finish(a)
    \/ Shutdown
    \/ \E a \in Arms : FbInvoke(a)
    \/ \E a \in Arms : FbSet(a)
    \/ \E a \in Arms : FbWrite(a)
    \/ PollTest
    \/ PollWake
    \/ PollInterrupted
    \/ ExecBegin
    \/ ExecRead
    \/ ExecTest
    \/ ExecBody
    \/ ExecWake
    \/ ExecInterrupted
    \/ WaitBegin
    \/ WaitLeft
    \/ WaitRight
    \/ WaitVerify
    \/ StopBegin
    \/ StopLeft
    \/ StopRight
    \/ StopWake
    \/ StopInterrupted
    \/ \E a \in Arms : CancelAck(a)

StopSpec == StopInit /\ [][StopNext]_vars

\* the steps the caller's thread takes inside an operation: the thread keeps
\* running, and its sleeps and timeouts elapse
OpStep ==
    \/ ParseRow
    \/ SendRight
    \/ PollTest \/ PollWake
    \/ ExecBegin \/ ExecRead \/ ExecTest \/ ExecBody \/ ExecWake
    \/ WaitLeft \/ WaitRight \/ WaitVerify
    \/ StopLeft \/ StopRight \/ StopWake

\* the node is shut down at some time if the flag is never set
ShutdownUnlessStarted == Shutdown /\ ~flag

Fairness == WF_vars(OpStep) /\ WF_vars(ShutdownUnlessStarted)

\* a session under fair scheduling: as StopInit, with the first row of the
\* recording placed so that the requested start offset is the largest
\* elapsed time a feedback message reports (feedback below the offset and
\* feedback at the offset both occur)
LiveInit ==
    /\ InitSession
    /\ header = StdHeader
    /\ file = Rec(<<MaxFb - 2>>, 2)
    /\ curAngle = Pose(2, 0)
    /\ velParam = [j \in ArmJoints |-> None]
    /\ gripType = [s \in Sides |-> "electric"]

LiveSpec == LiveInit /\ [][StopNext]_vars /\ Fairness

\* a session whose object is used again: start() may be called more than
\* once, in any order with wait() and stop()
SessionNext ==
    \/ StopNext
    \/ StartAgain

SessionSpec == LiveInit /\ [][SessionNext]_vars

----------------------------------------------------------------------------
(* Properties *)

callbacksIdle == \A a \in Arms : cbPc[a] = "idle"

\* C1: the start offset is latched once: after _trajectory_actual_offset has
\* been assigned by the first crossing callback, no later step of any
\* callback replaces its value.
C1_LatchedOnce == [][latched => actualOffset' = actualOffset]_vars

\* C2: when the coordinator, having seen the flag true, reads
\* _trajectory_actual_offset to compute its loop start time (line 86), the
\* offset has already been assigned by the callback that set the flag.
C2_ReadAfterLatch ==
    [][(mpc = "exec" /\ mpc' = "exec_read" /\ flag) => latched]_vars

\* C3: a callback reporting less than the requested offset changes nothing,
\* and once the callbacks have returned the latched offset is the elapsed
\* time reported by the first callback that reached the requested offset.
C3_FirstCrossingLatched ==
    /\ firstCross # None => DurGE(Duration(firstCross[1]), startOffset)
    /\ (flag \/ latched) => firstCross # None
    /\ (latched /\ callbacksIdle) => actualOffset = Duration(firstCross[1])

\* C4: a feedback callback invoked once the flag is true and the offset is
\* latched returns without changing the flag or the offset, whatever
\* elapsed time it reports and whichever arm it comes from.
C4_LateCallbackNoOp ==
    [][(flag /\ latched /\ ~lateInvoked /\ lateInvoked')
          => UNCHANGED <<flag, actualOffset, cbPc, cbT, writes>>]_vars

C4_Witness == lateInvoked /\ flag /\ latched /\ callbacksIdle

\* C5: start() reaches the body of the gripper loop, and a gripper has been
\* commanded, only after the flag has become true.
C5_NoCommandBeforePhase ==
    (mpc = "exec_body" \/ \E s \in Sides : gripCmd[s] # None) => flag

C5_Witness == flag /\ gripCmd["right"] # None /\ gripCmd["left"] # None

\* the greatest 0-based index whose sample time is <= t, clamped to 0
FloorIndex(times, t) ==
    IF t < times[1] THEN 0
    ELSE CHOOSE i \in 0..(Len(times) - 1) :
            /\ times[i + 1] <= t
            /\ \A j \in 0..(Len(times) - 1) : times[j + 1] <= t => j <= i

\* C6: in every iteration of the gripper loop the sample commanded is the one
\* at the greatest index whose sample time is <= elapsed, with elapsed before
\* the first sample giving index 0 and elapsed after the last the last index.
C6_FloorLookupClamped ==
    mpc = "exec_sleep" =>
        LET i == FloorIndex(pnt_times, now_from_start) IN
        /\ Commanded("right") => gripCmd["right"] = Some(rGrip[i + 1].positions[1])
        /\ Commanded("left") => gripCmd["left"] = Some(lGrip[i + 1].positions[1])

StrictlyIncreasing(points) ==
    \A i \in DOMAIN points : \A j \in DOMAIN points :
        i < j => /\ DurGE(points[j].time_from_start, points[i].time_from_start)
                 /\ points[j].time_from_start # points[i].time_from_start

parseDone == mpc = "idle" /\ parsed

\* C7: after parse_file each arm trajectory starts with a point at elapsed
\* time 0 holding the current joint angles, and the elapsed times of its
\* points are strictly increasing.
C7_ArmTrajectoryShape ==
    parseDone =>
        /\ lGoal[1] = Point(CurrentPose(lNames), 0)
        /\ rGoal[1] = Point(CurrentPose(rNames), 0)
        /\ StrictlyIncreasing(lGoal)
        /\ StrictlyIncreasing(rGoal)

RowTime(i) == file[i][1].v

\* C8: after parse_file every data row i has its point in all four
\* trajectories at elapsed time t_i + slowMoveOffset, and the requested start
\* offset is slowMoveOffset + t_0, the time of the first gripper sample.
C8_SharedTimeBase ==
    parseDone =>
        /\ Len(lGoal) = Len(file) + 1 /\ Len(rGoal) = Len(file) + 1
        /\ Len(lGrip) = Len(file) /\ Len(rGrip) = Len(file)
        /\ \A i \in DOMAIN file :
              LET d == Duration(RowTime(i) + slowMoveOffset) IN
              /\ lGoal[i + 1].time_from_start = d
              /\ rGoal[i + 1].time_from_start = d
              /\ lGrip[i].time_from_start = d
              /\ rGrip[i].time_from_start = d
        /\ startOffset = Duration(slowMoveOffset + RowTime(1))
        /\ startOffset = rGrip[1].time_from_start

C8_Witness ==
    parseDone /\ Len(file) >= 2 /\ slowMoveOffset > 0 /\ RowTime(1) > 0

\* C9: if either arm's server did not answer its probe, construction fails,
\* no goal is ever submitted to either server, and no probe is repeated.
C9_FailFast ==
    /\ \A a \in Arms : Len(probes[a]) <= 1
    /\ (\E a \in Arms : probes[a] # <<>> /\ ~probes[a][1]) =>
          /\ mpc = "raised"
          /\ \A a \in Arms : sent[a] = 0 /\ gh[a] = "none"

C9_Witness ==
    /\ probes["left"] = <<TRUE>> /\ probes["right"] = <<FALSE>>
    /\ mpc = "raised"

\* C10: wait() never raises; it returns true exactly when both arms were
\* done within the timeout with error code 0, and false otherwise.
C10_WaitVerdict ==
    /\ exc # "AttributeError"
    /\ waitRet = "True" =>
          \A a \in Arms : finish[a] /\ result[a] = Some(0)
    /\ waitRet = "False" =>
          \E a \in Arms : ~finish[a] \/ result[a] # Some(0)

StopPcs == {"stop_left", "stop_right", "stop_sleep"}

\* the arm whose test a step of stop() makes
StopArmAt(pc) == IF pc = "stop_left" THEN "left" ELSE "right"

\* C11: stop() requests cancellation on an arm if and only if that arm has a
\* goal that is reported active, whatever the state of the other arm; the
\* tests raise nothing, stop() returns only through its drain delay, and in
\* a node that is not shut down the delay raises nothing either.  So a call
\* with no active goal (none was sent, or both have ended) cancels nothing
\* and returns after the delay.
C11_StopCancelsActive ==
    [][/\ (mpc \in {"stop_left", "stop_right"} /\ mpc' # mpc) =>
            LET a == StopArmAt(mpc) IN
            /\ (cancels'[a] = cancels[a] + 1) <=> Running(a)
            /\ ~Running(a) => cancels'[a] = cancels[a]
            /\ \A b \in Arms \ {a} : cancels'[b] = cancels[b]
            /\ mpc' \in StopPcs /\ exc' = exc
       /\ (mpc \in StopPcs /\ mpc' = "idle") => mpc = "stop_sleep"
       /\ (mpc = "stop_sleep" /\ ~shutdown) => mpc' # "raised"
       /\ (mpc \notin StopPcs) => cancels' = cancels]_vars

\* two calls made: one cancelled the left arm's goal alone, the other found
\* no active goal, cancelled nothing and returned
C11_Witness ==
    /\ stops = 2 /\ mpc = "idle" /\ exc = "none"
    /\ cancels["left"] = 1 /\ cancels["right"] = 0

\* C12: over two calls of stop() made in a row on a session whose arm goals
\* are active, no call ends with an error and each arm's goal receives at
\* most one cancel request, whenever the server takes up the first request.
C12_StopTwiceOneCancel ==
    /\ (mpc \in StopPcs /\ ~shutdown) => exc = "none"
    /\ \A a \in Arms : cancels[a] <= 1

StartPcs == {"send_right", "poll", "poll_sleep", "exec", "exec_read",
             "exec_test", "exec_body", "exec_sleep"}

\* where start() is between a loop condition that reads the shutdown signal
\* as true and its exit
ExitPcs == {"exec", "exec_read", "exec_test"}

\* C13: the shutdown signal stays on; a loop condition of start() (line 247)
\* or of the gripper loop (lines 93-94) evaluated while it is on ends its
\* loop, and from there start() goes to its exit without another iteration
\* and without commanding a gripper; if the condition of line 247 reads it
\* while the flag is false, no gripper has been commanded at all.
C13_ShutdownStopsCommands ==
    [][/\ shutdown => shutdown'
       /\ (shutdown /\ mpc \in {"poll"} \cup ExitPcs /\ mpc' # mpc) =>
            /\ mpc' \in ExitPcs \cup {"idle", "raised"}
            /\ gripCmd' = gripCmd
       /\ (shutdown /\ mpc = "poll" /\ ~flag) =>
            \A s \in Sides : gripCmd[s] = None /\ gripCmd'[s] = None]_vars

\* start() has returned with the flag false: line 247 read the signal, and
\* no gripper was commanded
C13_Witness ==
    /\ shutdown /\ ~flag /\ mpc = "idle" /\ sent["right"] > 0
    /\ \A s \in Sides : gripCmd[s] = None

InOperation == mpc \notin {"new", "idle", "raised"}

Ended == mpc \in {"idle", "raised"}

\* C14: no operation blocks for ever.  The poll loop of start() ends at the
\* first test that finds the flag true or the node shut down; rate.sleep,
\* wait_for_result and the drain delay of stop() end when their time has
\* elapsed.  With the caller's thread running and the node shut down at some
\* time if the flag is never set, every operation that was begun ends.
C14_NoIndefiniteBlocking ==
    /\ [][(mpc = "poll" /\ (flag \/ shutdown)) => mpc' \in {"poll", "exec"}]_vars
    /\ InOperation ~> Ended

\* the flag was never set: start() returned on the shutdown signal, and
\* wait() and stop() have returned after it
C14_Witness ==
    /\ mpc = "idle" /\ shutdown /\ ~flag
    /\ sent["right"] > 0 /\ waitRet # "None" /\ stops > 0

ExecPcs == {"exec", "exec_read", "exec_test", "exec_body", "exec_sleep"}

\* C15: the gripper loop, once entered, ends.  Its condition lets it go on
\* exactly while elapsed < last sample time + one period and the node is not
\* shut down; the clock has advanced by a period or more at each new
\* reading; so with the caller's thread running the method comes to its end.
C15_GripperLoopTerminates ==
    /\ [][(mpc = "exec_test" /\ mpc' # mpc) =>
            /\ mpc' \in {"idle", "exec_body"}
            /\ mpc' = "idle" <=>
                  (now_from_start >= end_time + Period \/ shutdown)]_vars
    /\ [][(mpc = "exec_sleep" /\ mpc' = "exec_test") =>
            now_from_start' >= now_from_start + Period]_vars
    /\ (mpc \in ExecPcs) ~> Ended

\* the loop commanded the grippers and returned on elapsed time alone
C15_Witness ==
    /\ mpc = "idle" /\ ~shutdown /\ exc = "none"
    /\ gripCmd["right"] # None /\ gripCmd["left"] # None

\* the rows and columns of the recording whose cell float() rejects
BadCellsOf(f) ==
    {<<i, c>> \in (DOMAIN f) \X (2..Len(header)) : try_float(f[i][c]) = None}

\* C16: a row with a cell that is empty or not a number, in an arm joint
\* column or a gripper column, is not a parse failure: parse_file raises
\* nothing, and when it has returned every row has its point in each of the
\* four trajectories.
C16_BadCellNotFatal ==
    BadCellsOf(file) # {} =>
        /\ ~(mpc = "raised" /\ lNames # <<>>)
        /\ (mpc = "idle" /\ rowIdx = Len(file) /\ lNames # <<>>) =>
              /\ Len(lGoal) = Len(file) + 1 /\ Len(rGoal) = Len(file) + 1
              /\ Len(lGrip) = Len(file) /\ Len(rGrip) = Len(file)

\* the cell of the first row in the column of joint j
FirstRowCell(j) == file[1][CHOOSE k \in DOMAIN header : header[k] = j].v

\* |commanded - current| / velocity of joint j
Ratio(j) == Abs(FirstRowCell(j) - curAngle[j]) \div Velocity(j)

ArmJointsOf(names) ==
    {names[k] : k \in DOMAIN names} \ {"time", "left_gripper", "right_gripper"}

firstRowDone == rowIdx >= 1

\* C17: when every arm joint has a positive default velocity, the start
\* offset computed from the first row is the greatest, over the joints of
\* both arms, of |commanded - current| / velocity, in whatever order the
\* joints are listed; it is 0 when current equals commanded for every joint.
C17_StartOffsetIsMaxRatio ==
    LET joints == ArmJointsOf(header) IN
    (firstRowDone /\ \A j \in joints : Velocity(j) > 0) =>
        /\ \A j \in joints : slowMoveOffset >= Ratio(j)
        /\ \E j \in joints : slowMoveOffset = Ratio(j)
        /\ (\A j \in joints : FirstRowCell(j) = curAngle[j]) => slowMoveOffset = 0

\* the greatest ratio is that of the right arm's joint, listed between the
\* two joints of the left arm, which have a smaller one
C17_Witness ==
    /\ firstRowDone
    /\ header[3] = "right_s0" /\ header[2] = "left_s1"
    /\ \A j \in OffsetJoints : Velocity(j) > 0
    /\ Ratio("right_s0") = 2 /\ Ratio("left_s1") = 1 /\ Ratio("left_s0") = 0
    /\ slowMoveOffset = 2

\* C18: if the default velocity of any arm joint is zero or negative,
\* parse_file does not divide by it: it ends with a configuration error,
\* not with a ZeroDivisionError, and no row is given points at an offset
\* computed from such a velocity.
C18_VelocityGuarded ==
    (\E j \in ArmJointsOf(header) : Velocity(j) <= 0) =>
        /\ exc # "ZeroDivisionError"
        /\ ~firstRowDone
        /\ (mpc = "raised" /\ lNames # <<>>) => exc = "ConfigurationError"

\* C19: while the flag is false _trajectory_actual_offset holds its initial
\* value Duration(0.0) and has never been assigned.
C19_OffsetUnsetUntilFlag ==
    ~flag => (actualOffset = Duration(0) /\ writes = 0)

\* a callback reporting a time other than 0 has passed the test and has not
\* yet set the flag
C19_Witness ==
    /\ ~flag
    /\ \E a \in Arms : cbPc[a] = "set" /\ cbT[a] > 0
    /\ actualOffset = Duration(0)

GripPoints(s) == IF s = "left" THEN lGrip ELSE rGrip

\* C20: in an iteration of the gripper loop a gripper of type 'custom' is
\* not commanded, and a gripper of any other type is commanded with the
\* position of its sample at the index looked up in that iteration,
\* whatever the type of the other gripper.
C20_CustomGripperSkipped ==
    /\ [](\A s \in Sides : gripType[s] = "custom" => gripCmd[s] = None)
    /\ [][(mpc = "exec_body" /\ mpc' # mpc) =>
            /\ mpc' = "exec_sleep"
            /\ idx' = LookupIndex(pnt_times, now_from_start)
            /\ \A s \in Sides :
                  IF gripType[s] = "custom"
                  THEN gripCmd'[s] = gripCmd[s]
                  ELSE gripCmd'[s] = Some(PyAt(GripPoints(s), idx').positions[1])]_vars

\* the right gripper is custom: the left one alone has been commanded
C20_Witness ==
    /\ mpc = "exec_sleep"
    /\ gripType["right"] = "custom" /\ gripType["left"] # "custom"
    /\ gripCmd["right"] = None /\ gripCmd["left"] # None

\* the elapsed times at which the gripper loop may look a sample up
LookupTimes == 0..(MaxRowTime + 2 + MaxNow)

\* C21: after a successful parse_file the left and the right gripper
\* sequence have one sample per data row each, with the same time at
\* every index; so the index the gripper loop looks up in the right
\* gripper's times is a valid index of the left gripper's sequence too and
\* is the sample of the same row (in the recordings of ParseFiles the right
\* gripper's cell of a row is the left one's plus 5).
C21_GripperSequencesAligned ==
    parseDone =>
        /\ Len(lGrip) = Len(file) /\ Len(rGrip) = Len(file)
        /\ \A i \in DOMAIN rGrip :
              lGrip[i].time_from_start = rGrip[i].time_from_start
        /\ \A t \in LookupTimes :
              LET i == LookupIndex(pnt_times, t) IN
              /\ PyValid(rGrip, i) /\ PyValid(lGrip, i)
              /\ PyAt(lGrip, i).time_from_start = PyAt(rGrip, i).time_from_start
              /\ PyAt(lGrip, i).positions[1] + 5 = PyAt(rGrip, i).positions[1]

\* a recording of two rows has been parsed
C21_Witness ==
    /\ parseDone /\ Len(file) = 2
    /\ Len(lGrip) = 2 /\ Len(rGrip) = 2

\* C22: over the life of a session object the flag never goes from true
\* back to false, and the only step that changes it is line 225 of a
\* feedback callback; so a start() called when the flag is set leaves its
\* poll loop at the first test, without waiting for a callback.
C22_FlagMonotonic ==
    [][/\ flag => flag'
       /\ flag' # flag =>
            /\ mpc' = mpc
            /\ \E a \in Arms : cbPc[a] = "set" /\ cbPc'[a] = "write"
       /\ (mpc = "poll" /\ flag /\ mpc' # mpc) => mpc' = "exec"]_vars

\* the first start() ran the gripper loop, so the flag was set; the second
\* start() has sent its goals and left the poll loop
C22_Witness ==
    /\ sent["left"] = 2 /\ sent["right"] = 2 /\ mpc = "exec"
    /\ flag /\ ~shutdown
    /\ gripCmd["right"] # None

====
